---------------------------- MODULE Spec2Model ----------------------------
(***************************************************************************)
(* Model of nginx_monitor.py: a single-threaded monitor that polls the     *)
(* readiness of the ingress controller pods, counts consecutive unhealthy  *)
(* polls, restarts the deployment when FAILURE_THRESHOLD is reached and    *)
(* alerts through Slack, e-mail and PagerDuty.                             *)
(*                                                                         *)
(* The environment decides what every I/O call does: the two credential    *)
(* loads, list_namespaced_pod, patch_namespaced_deployment, the two HTTP   *)
(* posts and the SMTP send each either return or raise.  Statements that   *)
(* do no I/O (logging, string formatting, building a client object) are    *)
(* taken to return.                                                        *)
(***************************************************************************)
EXTENDS Integers, Sequences, FiniteSets, TLC

VARIABLES
    environ,            \* os.environ, read once at import (lines 15-19)
    FAILURE_THRESHOLD,  \* int(os.getenv("FAILURE_LIMIT", 3))
    dry_run,            \* args.dry_run
    pc,                 \* position of the single thread of control
    failure_count,      \* run_monitor's local counter
    broken_pods,        \* run_monitor's local: the last inspection result
    pods,               \* the API response that result was computed from, while
                        \* watching
    watching,           \* whether the API responses are kept in pods
    calls,              \* the calls made so far in this iteration
    logs,               \* log records written so far in this iteration
    polled,             \* this iteration's poll outcome
    pre_count,          \* failure_count when this iteration started
    streak,             \* unhealthy polls since the last healthy poll or restart call
    pre_streak,         \* streak when this iteration started
    message,            \* notify_all_channels's argument while it runs
    tracing,            \* whether this is one of the first MaxTrace iterations of a
                        \* run that records them
    trace               \* the iterations before this one, while tracing: the poll
                        \* outcome and whether restart_nginx_controller ran

vars == <<environ, FAILURE_THRESHOLD, dry_run, pc, failure_count, broken_pods,
          pods, watching,
          calls, logs, polled, pre_count, streak, pre_streak,
          message, tracing, trace>>

---------------------------------------------------------------------------
(* Bounds *)

MaxThreshold == 3
MaxPods == 2
MaxContainers == 2
MaxTrace == 5

---------------------------------------------------------------------------
(* Configuration, lines 13-21 *)

\* os.getenv returns None for a variable that is not set
None == "<None>"

\* Python truthiness of an Optional[str]
Truthy(v) == v /= None /\ v /= ""

os_getenv(key, default) == IF environ[key] = None THEN default ELSE environ[key]

NAMESPACE == "ingress-nginx"
DEPLOYMENT_NAME == "ingress-nginx-controller"
SLACK_HOOK_URL == os_getenv("SLACK_HOOK_URL", None)
PAGERDUTY_ROUTING_KEY == os_getenv("PAGERDUTY_ROUTING_KEY", None)
EMAIL_FROM == os_getenv("EMAIL_FROM", None)
EMAIL_TO == os_getenv("EMAIL_TO", None)
SMTP_HOST == os_getenv("SMTP_HOST", "localhost")

DefaultThreshold == 3

\* the environments the model starts from
Environments ==
    [ SLACK_HOOK_URL        : {None, "https://hooks.example/T0"},
      PAGERDUTY_ROUTING_KEY : {None, "R0"},
      EMAIL_FROM            : {None, "monitor@example.org"},
      EMAIL_TO              : {None, "oncall@example.org"},
      SMTP_HOST             : {None, "", "smtp.example.org"} ]

Thresholds == {-1, 0} \cup (1 .. MaxThreshold)

---------------------------------------------------------------------------
(* Cluster Inspector, lines 87-97 *)

PodNames == <<"pod-a", "pod-b", "pod-c", "pod-d">>

BoolSeqs(n) == UNION { [1 .. k -> BOOLEAN] : k \in 0 .. n }

\* pod.status.container_statuses is None or a list of container statuses;
\* a status is represented by its ready flag
ContainerStatuses ==
    { [is_none |-> TRUE, ready |-> << >>] }
        \cup { [is_none |-> FALSE, ready |-> r] : r \in BoolSeqs(MaxContainers) }

\* the API responses: up to MaxPods pods, named by position
PodLists ==
    UNION { { [i \in 1 .. k |-> [name |-> PodNames[i], container_statuses |-> cs[i]]]
                : cs \in [1 .. k -> ContainerStatuses] } : k \in 0 .. MaxPods }

\* lines 93-96 for one pod: its name appended once for every container not ready
RECURSIVE names_of_unready(_, _)
names_of_unready(name, ready) ==
    IF ready = << >> THEN << >>
    ELSE (IF ~Head(ready) THEN <<name>> ELSE << >>)
             \o names_of_unready(name, Tail(ready))

pod_problems(pod) ==
    IF ~pod.container_statuses.is_none /\ pod.container_statuses.ready /= << >>
    THEN names_of_unready(pod.name, pod.container_statuses.ready)
    ELSE << >>

RECURSIVE get_unhealthy_pods(_)
get_unhealthy_pods(items) ==
    IF items = << >> THEN << >>
    ELSE pod_problems(Head(items)) \o get_unhealthy_pods(Tail(items))

\* what get_unhealthy_pods can return: its value on every API response
InspectionResults == { get_unhealthy_pods(response) : response \in PodLists }

\* one API response for each value get_unhealthy_pods can return
Representatives ==
    { CHOOSE response \in PodLists : get_unhealthy_pods(response) = result
        : result \in InspectionResults }

\* the API responses a poll is drawn from: all of them while they are
\* watched, else one for each inspection result
ApiResponses == IF watching THEN PodLists ELSE Representatives

---------------------------------------------------------------------------
(* What the model records about a run *)

Call(op, arg, ok) == [op |-> op, arg |-> arg, ok |-> ok]

\* the calls of operation op made so far in this iteration
CallsOf(op) == SelectSeq(calls, LAMBDA c : c.op = op)

Count(op) == Len(CallsOf(op))

Logged(line) == \E i \in 1 .. Len(logs) : logs[i] = line

\* what trace keeps of the iteration in progress
ThisIteration ==
    [outcome |-> polled, fired |-> Count("restart_nginx_controller") > 0]

---------------------------------------------------------------------------
(* Startup, lines 131-138 *)

\* failure_count before line 138 binds it
Unbound == -1

\* the state before run_monitor's first statement
Start ==
    /\ pc = "load"
    /\ failure_count = Unbound
    /\ broken_pods = << >>
    /\ pods = << >>
    /\ calls = << >>
    /\ logs = << >>
    /\ polled = "none"
    /\ pre_count = 0
    /\ streak = 0
    /\ pre_streak = 0
    /\ message = None
    /\ trace = << >>

Init ==
    /\ environ \in Environments
    /\ FAILURE_THRESHOLD \in Thresholds
    /\ dry_run \in BOOLEAN
    /\ tracing = FALSE
    /\ watching = FALSE
    /\ Start

\* every channel configured, the first iterations recorded
InitTrace ==
    /\ environ = [ SLACK_HOOK_URL        |-> "https://hooks.example/T0",
                   PAGERDUTY_ROUTING_KEY |-> "R0",
                   EMAIL_FROM            |-> "monitor@example.org",
                   EMAIL_TO              |-> "oncall@example.org",
                   SMTP_HOST             |-> "smtp.example.org" ]
    /\ FAILURE_THRESHOLD \in Thresholds
    /\ dry_run \in BOOLEAN
    /\ tracing = TRUE
    /\ watching = FALSE
    /\ Start

\* no channel configured, the default threshold, every API response kept
InitInspect ==
    /\ environ = [ SLACK_HOOK_URL        |-> None,
                   PAGERDUTY_ROUTING_KEY |-> None,
                   EMAIL_FROM            |-> None,
                   EMAIL_TO              |-> None,
                   SMTP_HOST             |-> None ]
    /\ FAILURE_THRESHOLD = DefaultThreshold
    /\ dry_run \in BOOLEAN
    /\ tracing = FALSE
    /\ watching = TRUE
    /\ Start

\* lines 137-138
EnterLoop ==
    /\ logs' = Append(logs, "INFO NGINX health monitor started")
    /\ failure_count' = 0
    /\ pc' = "loop"

\* lines 132-134: config.load_kube_config()
LoadKubeConfig ==
    /\ pc = "load"
    /\ \E ok \in BOOLEAN :
          /\ calls' = Append(calls, Call("load_kube_config", "", ok))
          /\ IF ok THEN EnterLoop
                   ELSE /\ pc' = "incluster"
                        /\ UNCHANGED <<logs, failure_count>>
    /\ UNCHANGED <<environ, watching, FAILURE_THRESHOLD, dry_run, broken_pods, pods, polled,
                   pre_count, streak, pre_streak, message,
                   tracing, trace>>

\* line 135 with its error swallowed, so that the loop starts all the same
LoadInclusterConfig_swallows ==
    /\ pc = "incluster"
    /\ \E ok \in BOOLEAN :
          /\ calls' = Append(calls, Call("load_incluster_config", "", ok))
          /\ EnterLoop
    /\ UNCHANGED <<environ, watching, FAILURE_THRESHOLD, dry_run, broken_pods,
                   pods, polled, pre_count, streak, pre_streak, message,
                   tracing, trace>>

\* line 135: config.load_incluster_config(), whose error nothing catches
LoadInclusterConfig ==
    /\ pc = "incluster"
    /\ \E ok \in BOOLEAN :
          /\ calls' = Append(calls, Call("load_incluster_config", "", ok))
          /\ IF ok THEN EnterLoop
                   ELSE /\ pc' = "crashed"
                        /\ UNCHANGED <<logs, failure_count>>
    /\ UNCHANGED <<environ, watching, FAILURE_THRESHOLD, dry_run, broken_pods, pods, polled,
                   pre_count, streak, pre_streak, message,
                   tracing, trace>>

---------------------------------------------------------------------------
(* Monitor loop, lines 140-156 *)

\* lines 141-143: the call of get_unhealthy_pods; an API error goes to the
\* handler of line 154
Inspect ==
    /\ pc = "loop"
    /\ \/ /\ calls' = Append(calls, Call("list_namespaced_pod", NAMESPACE, FALSE))
          /\ polled' = "failed"
          /\ pc' = "except"
          /\ UNCHANGED <<broken_pods, pods, streak>>
       \/ \E response \in ApiResponses :
             /\ calls' = Append(calls, Call("list_namespaced_pod", NAMESPACE, TRUE))
             /\ pods' = IF watching THEN response ELSE << >>
             /\ broken_pods' = get_unhealthy_pods(response)
             /\ polled' = IF broken_pods' /= << >> THEN "unhealthy" ELSE "healthy"
             /\ streak' = IF broken_pods' /= << >> THEN streak + 1 ELSE 0
             /\ pc' = "check"
    /\ UNCHANGED <<environ, watching, FAILURE_THRESHOLD, dry_run, failure_count, logs,
                   pre_count, pre_streak, message, tracing, trace>>

\* the test of line 148 written as a strict comparison
threshold_exceeded(count, threshold) == count > threshold

\* line 148
threshold_reached(count, threshold) == count >= threshold

\* lines 144-153 without the reset of line 153
Check_keeps_on_healthy ==
    /\ pc = "check"
    /\ IF broken_pods /= << >>
       THEN /\ failure_count' = failure_count + 1
            /\ logs' = Append(logs, "WARNING Detected unhealthy pods")
            /\ pc' = IF threshold_reached(failure_count', FAILURE_THRESHOLD)
                     THEN "restart" ELSE "sleep"
       ELSE /\ logs' = Append(logs, "INFO All NGINX pods are healthy")
            /\ UNCHANGED failure_count
            /\ pc' = "sleep"
    /\ broken_pods' = << >>
    /\ pods' = << >>
    /\ UNCHANGED <<environ, watching, FAILURE_THRESHOLD, dry_run, calls,
                   polled, pre_count, streak, pre_streak, message,
                   tracing, trace>>

\* lines 151-153 with the recovery alerted through notify_all_channels
Check_alerts_recovery ==
    /\ pc = "check"
    /\ IF broken_pods /= << >>
       THEN /\ failure_count' = failure_count + 1
            /\ logs' = Append(logs, "WARNING Detected unhealthy pods")
            /\ pc' = IF threshold_reached(failure_count', FAILURE_THRESHOLD)
                     THEN "restart" ELSE "sleep"
       ELSE /\ logs' = Append(logs, "INFO All NGINX pods are healthy")
            /\ failure_count' = 0
            /\ pc' = "notify"
    /\ broken_pods' = << >>
    /\ pods' = << >>
    /\ UNCHANGED <<environ, watching, FAILURE_THRESHOLD, dry_run, calls,
                   polled, pre_count, streak, pre_streak, message,
                   tracing, trace>>

\* lines 144-153, up to the call of restart_nginx_controller; the list in
\* broken_pods is not read again after line 147 and is dropped here
Check ==
    /\ pc = "check"
    /\ IF broken_pods /= << >>
       THEN /\ failure_count' = failure_count + 1
            /\ logs' = Append(logs, "WARNING Detected unhealthy pods")
            /\ pc' = IF threshold_reached(failure_count', FAILURE_THRESHOLD)
                     THEN "restart" ELSE "sleep"
       ELSE /\ logs' = Append(logs, "INFO All NGINX pods are healthy")
            /\ failure_count' = 0
            /\ pc' = "sleep"
    /\ broken_pods' = << >>
    /\ pods' = << >>
    /\ UNCHANGED <<environ, watching, FAILURE_THRESHOLD, dry_run, calls,
                   polled, pre_count, streak, pre_streak, message,
                   tracing, trace>>

\* line 150 left out
ResetCounter_keeps ==
    /\ pc = "reset"
    /\ pc' = "sleep"
    /\ UNCHANGED <<environ, watching, FAILURE_THRESHOLD, dry_run, failure_count,
                   broken_pods, pods, calls, logs, polled, pre_count, streak,
                   pre_streak, message, tracing, trace>>

\* line 150, reached when restart_nginx_controller returns
ResetCounter ==
    /\ pc = "reset"
    /\ failure_count' = 0
    /\ pc' = "sleep"
    /\ UNCHANGED <<environ, watching, FAILURE_THRESHOLD, dry_run, broken_pods, pods, calls, logs,
                   polled, pre_count, streak, pre_streak, message,
                   tracing, trace>>

\* the handler of line 154 also clearing the counter
MonitorExcept_resets ==
    /\ pc = "except"
    /\ logs' = Append(logs, "ERROR Monitoring error")
    /\ failure_count' = 0
    /\ pc' = "sleep"
    /\ UNCHANGED <<environ, watching, FAILURE_THRESHOLD, dry_run,
                   broken_pods, pods, calls, polled, pre_count, streak, pre_streak, message, tracing, trace>>

\* the handler of line 154 ending the process instead of going on to line 156
MonitorExcept_exits ==
    /\ pc = "except"
    /\ logs' = Append(logs, "ERROR Monitoring error")
    /\ pc' = "crashed"
    /\ UNCHANGED <<environ, watching, FAILURE_THRESHOLD, dry_run, failure_count,
                   broken_pods, pods, calls, polled, pre_count, streak, pre_streak, message, tracing, trace>>

\* lines 154-155 with line 156 inside the try block, so that the handler
\* goes back to line 140 without sleeping
MonitorExcept_skips_sleep ==
    /\ pc = "except"
    /\ logs' = Append(logs, "ERROR Monitoring error")
    /\ pc' = "repeat"
    /\ UNCHANGED <<environ, watching, FAILURE_THRESHOLD, dry_run, failure_count,
                   broken_pods, pods, calls, polled, pre_count, streak, pre_streak, message, tracing, trace>>

\* lines 154-155
MonitorExcept ==
    /\ pc = "except"
    /\ logs' = Append(logs, "ERROR Monitoring error")
    /\ pc' = "sleep"
    /\ UNCHANGED <<environ, watching, FAILURE_THRESHOLD, dry_run, failure_count,
                   broken_pods, pods, calls, polled, pre_count, streak, pre_streak, message, tracing, trace>>

\* line 156
Sleep ==
    /\ pc = "sleep"
    /\ calls' = Append(calls, Call("time.sleep", "CHECK_EVERY", TRUE))
    /\ pc' = "repeat"
    /\ UNCHANGED <<environ, watching, FAILURE_THRESHOLD, dry_run, failure_count,
                   broken_pods, pods, logs, polled, pre_count, streak, pre_streak, message, tracing, trace>>

\* line 140: back to the top of the loop; the records of the iteration that
\* ended are filed and the next iteration's are started
Repeat ==
    /\ pc = "repeat"
    /\ pc' = "loop"
    /\ IF tracing /\ Len(trace) + 1 < MaxTrace
       THEN /\ trace' = Append(trace, ThisIteration)
            /\ UNCHANGED tracing
       ELSE /\ trace' = << >>
            /\ tracing' = FALSE
    /\ polled' = "none"
    /\ pre_count' = failure_count
    /\ pre_streak' = streak
    /\ calls' = << >>
    /\ logs' = << >>
    /\ UNCHANGED <<environ, watching, FAILURE_THRESHOLD, dry_run, failure_count,
                   broken_pods, pods, streak, message>>

---------------------------------------------------------------------------
(* Remediator, lines 100-126 *)

\* line 101
msg == "[Self-Heal] Restarting deployment " \o DEPLOYMENT_NAME
           \o " in namespace " \o NAMESPACE

\* line 103 ignoring the flag
never_skip_restart(flag) == FALSE

\* line 103
skip_restart(flag) == flag

\* lines 100-117 with the dry run going on to the alert of line 124
Restart_dry_notifies ==
    /\ pc = "restart"
    /\ calls' = Append(calls, Call("restart_nginx_controller", "", TRUE))
    /\ streak' = 0
    /\ IF skip_restart(dry_run)
       THEN /\ logs' = logs \o <<"INFO " \o msg,
                                 "INFO [Dry Run] Skipping actual restart">>
            /\ pc' = "notify"
       ELSE /\ logs' = Append(logs, "INFO " \o msg)
            /\ pc' = "patch"
    /\ UNCHANGED <<environ, watching, FAILURE_THRESHOLD, dry_run, failure_count,
                   broken_pods, pods, polled, pre_count, pre_streak,
                   message, tracing, trace>>

\* lines 100-117: the call of line 149 up to the try statement
Restart ==
    /\ pc = "restart"
    /\ calls' = Append(calls, Call("restart_nginx_controller", "", TRUE))
    /\ streak' = 0
    /\ IF skip_restart(dry_run)
       THEN /\ logs' = logs \o <<"INFO " \o msg,
                                 "INFO [Dry Run] Skipping actual restart">>
            /\ pc' = "reset"
       ELSE /\ logs' = Append(logs, "INFO " \o msg)
            /\ pc' = "patch"
    /\ UNCHANGED <<environ, watching, FAILURE_THRESHOLD, dry_run, failure_count,
                   broken_pods, pods, polled, pre_count, pre_streak,
                   message, tracing, trace>>

\* lines 118-123 with a failed patch tried again
Patch_retries ==
    /\ pc = "patch"
    /\ \E ok \in BOOLEAN :
          /\ calls' = Append(calls, Call("patch_namespaced_deployment",
                                         DEPLOYMENT_NAME, ok))
          /\ pc' = IF ok THEN "notify" ELSE "patch"
    /\ UNCHANGED <<environ, watching, FAILURE_THRESHOLD, dry_run, failure_count,
                   broken_pods, pods, logs, polled, pre_count, streak, pre_streak, message, tracing, trace>>

\* lines 118-124 with the alert of line 124 moved out of the try block, so
\* that it is sent whether the patch returned or raised
Patch_notifies_on_failure ==
    /\ pc = "patch"
    /\ \E ok \in BOOLEAN :
          /\ calls' = Append(calls, Call("patch_namespaced_deployment",
                                         DEPLOYMENT_NAME, ok))
          /\ pc' = "notify"
    /\ UNCHANGED <<environ, watching, FAILURE_THRESHOLD, dry_run, failure_count,
                   broken_pods, pods, logs, polled, pre_count, streak, pre_streak, message, tracing, trace>>

\* lines 118-123: one patch call; its error goes to the handler of line 125
Patch ==
    /\ pc = "patch"
    /\ \E ok \in BOOLEAN :
          /\ calls' = Append(calls, Call("patch_namespaced_deployment",
                                         DEPLOYMENT_NAME, ok))
          /\ pc' = IF ok THEN "notify" ELSE "restart_except"
    /\ UNCHANGED <<environ, watching, FAILURE_THRESHOLD, dry_run, failure_count,
                   broken_pods, pods, logs, polled, pre_count, streak, pre_streak, message, tracing, trace>>

\* lines 125-126 with the error raised again, to the handler of line 154
RestartExcept_reraises ==
    /\ pc = "restart_except"
    /\ logs' = Append(logs, "ERROR Failed to restart")
    /\ message' = None
    /\ pc' = "except"
    /\ UNCHANGED <<environ, watching, FAILURE_THRESHOLD, dry_run, failure_count,
                   broken_pods, pods, calls, polled, pre_count, streak, pre_streak, tracing, trace>>

\* lines 125-126: the error is logged and restart_nginx_controller returns
RestartExcept ==
    /\ pc = "restart_except"
    /\ logs' = Append(logs, "ERROR Failed to restart")
    /\ message' = None
    /\ pc' = "reset"
    /\ UNCHANGED <<environ, watching, FAILURE_THRESHOLD, dry_run, failure_count,
                   broken_pods, pods, calls, polled, pre_count, streak, pre_streak, tracing, trace>>

---------------------------------------------------------------------------
(* Notifier, lines 33-82 *)

\* lines 78-79, called from line 124
NotifyAllChannels ==
    /\ pc = "notify"
    /\ message' = "Remediation triggered: " \o msg
    /\ calls' = Append(calls, Call("notify_all_channels", message', TRUE))
    /\ logs' = Append(logs, "INFO Alert: " \o message')
    /\ pc' = "slack"
    /\ UNCHANGED <<environ, watching, FAILURE_THRESHOLD, dry_run, failure_count,
                   broken_pods, pods, polled, pre_count, streak, pre_streak, tracing, trace>>

\* a delivery error left to reach notify_all_channels's caller, the try
\* statement of line 118
delivery_error_propagates(next) == "restart_except"

\* where control goes when a delivery call raises inside notify_*: the
\* handler of the function logs the error and the function returns
after_delivery_error(next) == next

\* one channel function: skipped with a warning when its configuration is
\* missing, else one delivery call whose error is logged and swallowed
Channel(at, configured, op, arg, name, next) ==
    /\ pc = at
    /\ IF ~configured
       THEN /\ logs' = Append(logs, "WARNING " \o name \o " skipped")
            /\ pc' = next
            /\ UNCHANGED calls
       ELSE \E ok \in BOOLEAN :
               /\ calls' = Append(calls, Call(op, arg, ok))
               /\ IF ok THEN /\ pc' = next
                             /\ UNCHANGED logs
                        ELSE /\ logs' = Append(logs, "ERROR " \o name \o " error")
                             /\ pc' = after_delivery_error(next)
    /\ UNCHANGED <<environ, watching, FAILURE_THRESHOLD, dry_run, failure_count,
                   broken_pods, pods, polled, pre_count, streak, pre_streak, tracing, trace>>

\* line 34 without the test
slack_always_configured == TRUE

\* line 34
slack_configured == Truthy(SLACK_HOOK_URL)

\* line 44
email_configured == Truthy(EMAIL_FROM) /\ Truthy(EMAIL_TO) /\ Truthy(SMTP_HOST)

\* line 60
pagerduty_configured == Truthy(PAGERDUTY_ROUTING_KEY)

\* lines 33-40, called from line 80
NotifySlack ==
    /\ Channel("slack", slack_configured, "slack_post", message, "Slack", "email")
    /\ UNCHANGED message

\* lines 43-56 with the subject of line 49 sent in place of the message
NotifyEmail_sends_subject ==
    /\ Channel("email", email_configured, "smtp_send", "NGINX Health Alert",
               "Email", "pagerduty")
    /\ UNCHANGED message

\* lines 43-56, called from line 81
NotifyEmail ==
    /\ Channel("email", email_configured, "smtp_send", message, "Email", "pagerduty")
    /\ UNCHANGED message

\* lines 59-75, called from line 82; when it returns so do notify_all_channels
\* and the try block of restart_nginx_controller
NotifyPagerduty ==
    /\ Channel("pagerduty", pagerduty_configured, "pagerduty_post", message,
               "PagerDuty", "reset")
    /\ message' = IF pc' = "reset" THEN None ELSE message

---------------------------------------------------------------------------
(* The program *)

Next ==
    \/ LoadKubeConfig
    \/ LoadInclusterConfig
    \/ Inspect
    \/ Check
    \/ Restart
    \/ Patch
    \/ RestartExcept
    \/ NotifyAllChannels
    \/ NotifySlack
    \/ NotifyEmail
    \/ NotifyPagerduty
    \/ ResetCounter
    \/ MonitorExcept
    \/ Sleep
    \/ Repeat

Spec == Init /\ [][Next]_vars

\* the same program with its first MaxTrace iterations recorded
SpecTrace == InitTrace /\ [][Next]_vars

\* the same program with the API response of each poll kept
SpecInspect == InitInspect /\ [][Next]_vars

\* the thread keeps running: a step that can be taken is taken
FairSpec == Spec /\ WF_vars(Next)

---------------------------------------------------------------------------
(* Vocabulary of the properties *)

\* the iteration's work is done: the thread is at the sleep of line 156 or
\* has just returned from it
AtSleep == pc \in {"sleep", "repeat"}

\* restart_nginx_controller was called in this iteration
Fired == Count("restart_nginx_controller") > 0

\* the patch call of this iteration returned (ok) or raised (~ok)
Patched(ok) ==
    \E i \in 1 .. Len(calls) :
        calls[i].op = "patch_namespaced_deployment" /\ calls[i].ok = ok

DeliveryOps == {"slack_post", "smtp_send", "pagerduty_post"}

\* the delivery calls of this iteration
Deliveries == SelectSeq(calls, LAMBDA c : c.op \in DeliveryOps)

\* position of the first call of op in this iteration, 0 when there is none
IndexOf(op) ==
    IF Count(op) = 0 THEN 0
    ELSE CHOOSE i \in 1 .. Len(calls) :
             calls[i].op = op /\ \A j \in 1 .. i - 1 : calls[j].op /= op

\* notify_all_channels was called in this iteration and has returned
NotifyReturned == Count("notify_all_channels") = 1 /\ pc \in {"reset", "sleep", "repeat"}

\* the length of the run of unhealthy polls that ends a recorded sequence of
\* iterations: a healthy poll or a call of restart_nginx_controller ends a
\* run, a failed inspection is skipped
RECURSIVE TrailingRun(_)
TrailingRun(t) ==
    IF t = << >> THEN 0
    ELSE LET e == t[Len(t)]
             rest == SubSeq(t, 1, Len(t) - 1)
         IN  IF e.outcome = "healthy" \/ e.fired THEN 0
             ELSE IF e.outcome = "unhealthy" THEN 1 + TrailingRun(rest)
             ELSE TrailingRun(rest)

\* the recorded iterations with the one in progress
Recorded == Append(trace, ThisIteration)

Outcomes(t) == [i \in 1 .. Len(t) |-> t[i].outcome]

Fires(t) == [i \in 1 .. Len(t) |-> t[i].fired]

---------------------------------------------------------------------------
(* C1 *)

\* C1: for a threshold of at least 1, at the end of every iteration the
\* counter is the number of unhealthy polls since the latest healthy poll or
\* call of restart_nginx_controller (computed from the recorded sequence of
\* poll outcomes while it is recorded, and counted by streak throughout); a
\* failed inspection leaves it as it was, and it is 0 after the poll that
\* takes it to the threshold.
C1_CounterIsTrailingRun ==
    (AtSleep /\ FAILURE_THRESHOLD >= 1) =>
        /\ failure_count = streak
        /\ tracing => failure_count = TrailingRun(Recorded)
        /\ polled = "failed" => failure_count = pre_count
        /\ (polled = "unhealthy" /\ pre_count + 1 = FAILURE_THRESHOLD)
               => failure_count = 0
        /\ failure_count < FAILURE_THRESHOLD

\* unhealthy, inspection failed, unhealthy: the counter is 2
C1_Witness ==
    /\ tracing /\ pc = "repeat"
    /\ Outcomes(Recorded) = <<"unhealthy", "failed", "unhealthy">>
    /\ failure_count = 2

---------------------------------------------------------------------------
(* C2 *)

\* C2: for a threshold of at least 1, restart_nginx_controller is called in
\* an iteration exactly when its poll is unhealthy and is the threshold-th
\* unhealthy poll since the latest healthy poll or restart call, and at most
\* once; with threshold 3, unhealthy x3 calls it in the third iteration only
\* and leaves the counter 0, and unhealthy, unhealthy, healthy, unhealthy,
\* unhealthy never calls it.
C2_RestartOnThresholdthUnhealthy ==
    (AtSleep /\ FAILURE_THRESHOLD >= 1) =>
        /\ Fired <=> (polled = "unhealthy" /\ pre_streak + 1 = FAILURE_THRESHOLD)
        /\ Count("restart_nginx_controller") <= 1
        /\ tracing => pre_streak = TrailingRun(trace)
        /\ (/\ tracing
            /\ FAILURE_THRESHOLD = DefaultThreshold
            /\ Outcomes(Recorded) = <<"unhealthy", "unhealthy", "unhealthy">>)
               => /\ Fires(Recorded) = <<FALSE, FALSE, TRUE>>
                  /\ failure_count = 0
        /\ (/\ tracing
            /\ FAILURE_THRESHOLD = DefaultThreshold
            /\ Outcomes(Recorded) = <<"unhealthy", "unhealthy", "healthy",
                                      "unhealthy", "unhealthy">>)
               => Fires(Recorded) = <<FALSE, FALSE, FALSE, FALSE, FALSE>>

\* the third of three unhealthy polls with threshold 3 has called restart
C2_Witness ==
    /\ tracing /\ pc = "sleep"
    /\ FAILURE_THRESHOLD = DefaultThreshold
    /\ Outcomes(Recorded) = <<"unhealthy", "unhealthy", "unhealthy">>
    /\ Fired
    /\ failure_count = 0

---------------------------------------------------------------------------
(* C3 *)

\* C3: in an iteration whose inspection call raised, the thread goes from the
\* handler straight to the sleep, the counter keeps its value, neither
\* restart, patch, alert nor delivery is called, the error is logged and the
\* sleep is made; and a healthy poll, also one that follows, leaves the
\* counter 0.
C3_InspectionFailureKeepsCounter ==
    /\ polled = "failed" =>
          /\ pc \in {"except", "sleep", "repeat"}
          /\ failure_count = pre_count
          /\ ~Fired
          /\ Count("patch_namespaced_deployment") = 0
          /\ Count("notify_all_channels") = 0
          /\ Deliveries = << >>
    /\ (polled = "failed" /\ AtSleep) => Logged("ERROR Monitoring error")
    /\ (polled = "failed" /\ pc = "repeat") => Count("time.sleep") = 1
    /\ (polled = "healthy" /\ AtSleep) => failure_count = 0

\* unhealthy, inspection failed, healthy: the failed inspection left the
\* counter 1 and the healthy poll has reset it
C3_Witness ==
    /\ tracing /\ pc = "repeat"
    /\ Outcomes(Recorded) = <<"unhealthy", "failed", "healthy">>
    /\ pre_count = 1
    /\ failure_count = 0

---------------------------------------------------------------------------
(* C4 *)

---------------------------------------------------------------------------
(* C5 *)

\* C5: with dry_run set the patch call is never made, and every iteration
\* whose unhealthy poll takes the counter to the threshold calls
\* restart_nginx_controller, logs the skipped restart and ends with the
\* counter 0.
C5_DryRunNeverPatches ==
    dry_run =>
        /\ Count("patch_namespaced_deployment") = 0
        /\ pc \notin {"patch", "restart_except"}
        /\ (AtSleep /\ polled = "unhealthy" /\ pre_count + 1 >= FAILURE_THRESHOLD)
               => /\ Fired
                  /\ Logged("INFO [Dry Run] Skipping actual restart")
                  /\ failure_count = 0

\* a dry run reached the threshold after an earlier unhealthy poll
C5_Witness ==
    /\ dry_run
    /\ pc = "sleep"
    /\ Fired
    /\ pre_count > 0
    /\ Logged("INFO [Dry Run] Skipping actual restart")
    /\ failure_count = 0

---------------------------------------------------------------------------
(* C6 *)

---------------------------------------------------------------------------
(* C7 *)

\* C7: no iteration makes more than one patch call or more than one call of
\* notify_all_channels; without dry_run, an iteration that called
\* restart_nginx_controller made exactly one patch call, and then: if the
\* patch returned, exactly one call of notify_all_channels, after the patch;
\* if it raised, the error is logged and neither notify_all_channels nor any
\* delivery call is made.
C7_OnePatchThenAlertOnSuccess ==
    /\ Count("patch_namespaced_deployment") <= 1
    /\ Count("notify_all_channels") <= 1
    /\ (~dry_run /\ AtSleep /\ Fired) =>
          /\ Count("patch_namespaced_deployment") = 1
          /\ Patched(TRUE) =>
                /\ Count("notify_all_channels") = 1
                /\ IndexOf("patch_namespaced_deployment") < IndexOf("notify_all_channels")
                /\ ~Logged("ERROR Failed to restart")
          /\ Patched(FALSE) =>
                /\ Logged("ERROR Failed to restart")
                /\ Count("notify_all_channels") = 0
                /\ Deliveries = << >>

\* the patch returned and the alert followed it
C7_Witness ==
    /\ ~dry_run
    /\ pc = "repeat"
    /\ Patched(TRUE)
    /\ Count("notify_all_channels") = 1

---------------------------------------------------------------------------
(* C8 *)

\* some delivery call of this iteration was made and every one made raised
AllDeliveriesFailed ==
    /\ NotifyReturned
    /\ Deliveries /= << >>
    /\ \A i \in 1 .. Len(Deliveries) : ~Deliveries[i].ok

\* the channels the environment configures, read from the environment itself
SlackSet == environ.SLACK_HOOK_URL \notin {None, ""}

PagerdutySet == environ.PAGERDUTY_ROUTING_KEY \notin {None, ""}

EmailSet ==
    /\ environ.EMAIL_FROM \notin {None, ""}
    /\ environ.EMAIL_TO \notin {None, ""}
    /\ environ.SMTP_HOST /= ""

\* no delivery error reaches the caller of notify_all_channels (the handler
\* of line 125 is entered from a failed patch only, that of line 154 from a
\* failed inspection only), and once notify_all_channels has returned every
\* configured channel has been tried once, whichever deliveries raised
C8_Safety ==
    /\ pc = "restart_except" =>
          /\ calls[Len(calls)].op = "patch_namespaced_deployment"
          /\ Deliveries = << >>
    /\ pc = "except" => polled = "failed"
    /\ Logged("ERROR Failed to restart") => Patched(FALSE)
    /\ NotifyReturned =>
          /\ SlackSet => Count("slack_post") = 1
          /\ EmailSet => Count("smtp_send") = 1
          /\ PagerdutySet => Count("pagerduty_post") = 1

\* C8: notify_all_channels never raises to its caller whichever delivery
\* calls raise, a delivery that raises keeps no configured channel from being
\* tried, and after an alert whose every delivery raised the loop still
\* sleeps and polls again.
C8_NotifierNeverRaises ==
    /\ []C8_Safety
    /\ AllDeliveriesFailed ~> (pc = "repeat")
    /\ AllDeliveriesFailed ~> (pc \in {"check", "except"} /\ ~Fired)

\* all three channels configured, all three deliveries raised, and the
\* thread is at the sleep
C8_Witness ==
    /\ pc = "sleep"
    /\ AllDeliveriesFailed
    /\ Len(Deliveries) = 3

---------------------------------------------------------------------------
(* C9 *)

---------------------------------------------------------------------------
(* C10 *)

\* the thread is inside the while loop of line 140
InLoop == pc \notin {"load", "incluster", "crashed"}

\* C10: once in the loop the thread never leaves it and always has a next
\* step; under fairness every poll is followed by the sleep and by the next
\* poll, also after a failed inspection, a failed patch and failed
\* deliveries.
C10_LoopNeverTerminates ==
    /\ [][InLoop => InLoop']_vars
    /\ [](InLoop => ENABLED Next)
    /\ (pc = "loop") ~> (pc = "repeat")
    /\ (pc = "repeat") ~> (pc = "loop")
    /\ (pc \in {"except", "restart_except"} \/ AllDeliveriesFailed)
           ~> (pc = "repeat" /\ Count("time.sleep") = 1)

\* the sleep that follows a failed inspection has been made with a positive
\* counter kept
C10_Witness ==
    /\ pc = "repeat"
    /\ polled = "failed"
    /\ Count("time.sleep") = 1
    /\ failure_count > 0

---------------------------------------------------------------------------
(* C11 *)

\* the positions between the call of restart_nginx_controller (line 149)
\* and the reset of line 150
Remediating ==
    pc \in {"restart", "patch", "restart_except", "notify", "slack", "email",
            "pagerduty", "reset"}

\* what C11 says of every state inside the loop
C11_Range ==
    (InLoop /\ FAILURE_THRESHOLD >= 1) =>
        /\ failure_count >= 0
        /\ failure_count <= FAILURE_THRESHOLD
        /\ Remediating <=> failure_count = FAILURE_THRESHOLD
        /\ AtSleep => failure_count \in 0 .. FAILURE_THRESHOLD - 1
        /\ pc \in {"loop", "check", "except"} => failure_count = pre_count

\* what C11 says of every step
C11_Step ==
    /\ (~InLoop /\ InLoop') => failure_count' = 0
    /\ (InLoop /\ FAILURE_THRESHOLD >= 1) =>
          \/ failure_count' = failure_count
          \/ failure_count' = 0
          \/ /\ failure_count' = failure_count + 1
             /\ pc = "check" /\ polled = "unhealthy"

\* C11: for a threshold of at least 1 the counter is 0 when the loop is
\* entered, is never negative and never above the threshold, changes only
\* by +1 on an unhealthy poll or by a reset to 0, equals the threshold
\* exactly between the call of restart_nginx_controller and the reset that
\* follows it, and is in 0..threshold-1 at every sleep.
C11_CounterStateMachine ==
    /\ []C11_Range
    /\ [][C11_Step]_vars

\* Degraded(2) with threshold 3 at the sleep
C11_Witness ==
    /\ pc = "sleep"
    /\ FAILURE_THRESHOLD = DefaultThreshold
    /\ failure_count = 2
    /\ pre_count = 1

---------------------------------------------------------------------------
(* C12 *)

\* the startup calls made so far, in order, with their outcomes; the first
\* iteration's record holds them
StartupCalls ==
    SelectSeq(calls, LAMBDA c : c.op \in {"load_kube_config", "load_incluster_config"})

\* the loop calls made so far in this iteration
LoopCalls ==
    SelectSeq(calls, LAMBDA c : c.op \notin {"load_kube_config", "load_incluster_config"})

\* C12: load_incluster_config is called exactly when load_kube_config has
\* raised; when both raise the process ends with no poll, restart, alert or
\* sleep made and makes no further step; when one returns the loop is entered
\* with the counter 0.
C12_StartupCredentials ==
    /\ pc = "load" => calls = << >>
    /\ pc = "incluster" => calls = <<Call("load_kube_config", "", FALSE)>>
    /\ Count("load_incluster_config") <= 1
    /\ Count("load_incluster_config") = 1 =>
          /\ Len(StartupCalls) = 2
          /\ StartupCalls[1] = Call("load_kube_config", "", FALSE)
    /\ (pc \notin {"load", "incluster"} /\ Count("load_incluster_config") = 0
            /\ StartupCalls /= << >>)
          => StartupCalls = <<Call("load_kube_config", "", TRUE)>>
    /\ pc = "crashed" =>
          /\ calls = <<Call("load_kube_config", "", FALSE),
                       Call("load_incluster_config", "", FALSE)>>
          /\ logs = << >>
          /\ polled = "none"
          /\ ~ENABLED Next
    /\ (pc = "loop" /\ StartupCalls /= << >>) =>
          /\ StartupCalls[Len(StartupCalls)].ok
          /\ LoopCalls = << >>
          /\ failure_count = 0
          /\ Logged("INFO NGINX health monitor started")

\* both credential loads raised
C12_Witness ==
    /\ pc = "crashed"
    /\ Len(calls) = 2

---------------------------------------------------------------------------
(* C13 *)

\* the sender address, the recipient address and the relay host are all in
\* the environment, none of them empty
AllThreePresent ==
    /\ environ.EMAIL_FROM \notin {None, ""}
    /\ environ.EMAIL_TO \notin {None, ""}
    /\ environ.SMTP_HOST \notin {None, ""}

\* C13: the email channel is disabled unless the sender address, the
\* recipient address and the relay host are all present in the configuration:
\* no send is made while one of them is missing, and a returned call of
\* notify_all_channels has made a send exactly when all three are present.
C13_EmailIffAllThreeConfigured ==
    /\ ~AllThreePresent => Count("smtp_send") = 0
    /\ NotifyReturned => (AllThreePresent <=> Count("smtp_send") = 1)

---------------------------------------------------------------------------
(* C14 *)

\* the state of the loop (Healthy, Degraded(n), Remediating) changed in this
\* iteration: the counter moved, or restart_nginx_controller was called
StateChanged == failure_count /= pre_count \/ Fired

---------------------------------------------------------------------------
(* C15 *)

\* a pod with container statuses of which at least one is not ready
Unhealthy(pod) ==
    /\ ~pod.container_statuses.is_none
    /\ \E i \in 1 .. Len(pod.container_statuses.ready) :
           ~pod.container_statuses.ready[i]

\* the names of the unhealthy pods of an API response, each once, in the
\* order of the response
RECURSIVE UnhealthyNames(_)
UnhealthyNames(items) ==
    IF items = << >> THEN << >>
    ELSE (IF Unhealthy(Head(items)) THEN <<Head(items).name>> ELSE << >>)
             \o UnhealthyNames(Tail(items))

\* C15: get_unhealthy_pods returns the names of the pods that have at least
\* one container not ready, each such pod once, in the order of the API
\* response, leaving out the pods with no container statuses and the pods
\* whose containers are all ready; its result is non-empty exactly when some
\* pod has a container that is not ready.
C15_EachUnhealthyPodOnce ==
    (watching /\ pc = "check") =>
        /\ broken_pods = UnhealthyNames(pods)
        /\ (broken_pods /= << >>) <=> (\E i \in 1 .. Len(pods) : Unhealthy(pods[i]))

---------------------------------------------------------------------------
(* C16 *)

\* the step of an iteration a call belongs to: 1 inspect, 2 remediate,
\* 3 notify, 4 sleep; 0 for the credential loads made before the loop
StepOf(op) ==
    CASE op \in {"load_kube_config", "load_incluster_config"} -> 0
      [] op = "list_namespaced_pod" -> 1
      [] op \in {"restart_nginx_controller", "patch_namespaced_deployment"} -> 2
      [] op \in {"notify_all_channels"} \cup DeliveryOps -> 3
      [] op = "time.sleep" -> 4

\* C16: the calls of an iteration are made in the order inspect, remediate,
\* notify, sleep, with the counter updated between the inspection and the
\* restart; an iteration makes one inspection call and one sleep call, the
\* sleep is its last call whatever the inspection and the restart did, and
\* every restart, patch, notify or delivery call comes after an inspection
\* call that returned.
C16_IterationOrder ==
    /\ \A i, j \in 1 .. Len(calls) :
           i < j => StepOf(calls[i].op) <= StepOf(calls[j].op)
    /\ Count("list_namespaced_pod") <= 1
    /\ Count("time.sleep") <= 1
    /\ \A i \in 1 .. Len(calls) :
           StepOf(calls[i].op) \in {2, 3} =>
               \E j \in 1 .. i - 1 :
                   calls[j] = Call("list_namespaced_pod", NAMESPACE, TRUE)
    /\ pc = "restart" => (polled = "unhealthy" /\ failure_count = pre_count + 1)
    /\ pc = "loop" => LoopCalls = << >>
    /\ pc = "repeat" =>
          /\ Count("list_namespaced_pod") = 1
          /\ Count("time.sleep") = 1
          /\ calls[Len(calls)].op = "time.sleep"
    /\ Count("time.sleep") = 1 => pc = "repeat"

\* the sleep at the end of an iteration whose patch call raised
C16_Witness ==
    /\ pc = "repeat"
    /\ Patched(FALSE)
    /\ calls[Len(calls)].op = "time.sleep"

---------------------------------------------------------------------------
(* C17 *)

\* the place of a channel in lines 80-82
ChannelOrder(op) ==
    CASE op = "slack_post" -> 1
      [] op = "smtp_send" -> 2
      [] op = "pagerduty_post" -> 3

\* C17: the delivery calls of one call of notify_all_channels all carry the
\* message notify_all_channels was called with, there is at most one for
\* each channel whether it returned or raised, they are made in the order
\* webhook, email, paging, and when notify_all_channels has returned every
\* configured channel has had its one call.
C17_SameMessageOnceInOrder ==
    /\ \A i \in 1 .. Len(Deliveries) :
           /\ Count("notify_all_channels") = 1
           /\ Deliveries[i].arg = CallsOf("notify_all_channels")[1].arg
    /\ \A i, j \in 1 .. Len(Deliveries) :
           i < j => ChannelOrder(Deliveries[i].op) < ChannelOrder(Deliveries[j].op)
    /\ NotifyReturned =>
          /\ slack_configured => Count("slack_post") = 1
          /\ email_configured => Count("smtp_send") = 1
          /\ pagerduty_configured => Count("pagerduty_post") = 1

\* three channels tried once each, the first of them having failed
C17_Witness ==
    /\ NotifyReturned
    /\ Len(Deliveries) = 3
    /\ ~Deliveries[1].ok
    /\ Deliveries[3].op = "pagerduty_post"

---------------------------------------------------------------------------
(* C18 *)

\* C18: a call of notify_all_channels or a delivery call is made only in an
\* iteration that called restart_nginx_controller without dry-run and whose
\* patch call returned; an iteration whose poll is healthy, whose inspection
\* failed or whose unhealthy poll leaves the counter below the threshold
\* makes no patch call, no call of notify_all_channels and no delivery call;
\* no iteration calls notify_all_channels twice.
C18_AlertsOnlyFromSuccessfulRestart ==
    /\ Count("notify_all_channels") <= 1
    /\ (Count("notify_all_channels") = 1 \/ Deliveries /= << >>) =>
          /\ ~dry_run
          /\ Fired
          /\ CallsOf("patch_namespaced_deployment")
                = <<Call("patch_namespaced_deployment", DEPLOYMENT_NAME, TRUE)>>
    /\ (\/ polled \in {"none", "healthy", "failed"}
        \/ /\ polled = "unhealthy"
           /\ pc \notin {"loop", "check"}
           /\ ~Fired) =>
          /\ Count("patch_namespaced_deployment") = 0
          /\ Count("notify_all_channels") = 0
          /\ Deliveries = << >>
    /\ (AtSleep /\ polled = "unhealthy"
            /\ ~threshold_reached(pre_count + 1, FAILURE_THRESHOLD)) => ~Fired

\* an iteration whose patch raised ends with no alert
C18_Witness ==
    /\ pc = "sleep"
    /\ ~dry_run
    /\ Patched(FALSE)
    /\ Count("notify_all_channels") = 0
    /\ Deliveries = << >>

---------------------------------------------------------------------------
(* C19 *)

\* C19: with a threshold of 1 or less, 0 and negative values included, an
\* iteration whose poll is unhealthy calls restart_nginx_controller, and the
\* counter is 0 at every sleep, so that no sleep is made in Degraded.
C19_LowThresholdAlwaysFires ==
    (FAILURE_THRESHOLD <= 1 /\ InLoop) =>
        /\ (AtSleep /\ polled = "unhealthy") => Fired
        /\ AtSleep => failure_count = 0
        /\ pc \in {"loop", "check", "except"} => failure_count = 0

\* a negative threshold: the first unhealthy poll has restarted the deployment
C19_Witness ==
    /\ FAILURE_THRESHOLD = -1
    /\ pc = "sleep"
    /\ polled = "unhealthy"
    /\ pre_count = 0
    /\ Fired

===========================================================================
